---- MODULE Spec2Model ----
(***************************************************************************)
(* Cart and checkout of the Queen Koba backend, in its two editions:       *)
(*   queenkoba_mongodb.py     carts embedded in the user document          *)
(*   queenkoba_postgresql.py  carts as rows of cart_items                  *)
(* Every request handler is a sequence of storage operations; one action   *)
(* of the model is one storage operation together with the local           *)
(* computation that follows it, so that requests served by different       *)
(* worker threads interleave exactly where the storage lets them.          *)
(* Money is in US cents.                                                   *)
(***************************************************************************)
EXTENDS Integers, Sequences, FiniteSets, TLC

\* ------------------------------------------------------------------ bounds
\* number of requests the server is followed through
MaxRequests == 3

Editions == {"mongodb", "postgresql"}
\* worker threads of the server; a request goes to the first idle one
Procs == {1, 2}
\* registered customers (identity of the JWT)
Users == {"u1"}
\* product identifiers: products 1 and 2 are seeded, 3 is not a product
Oids == {1, 2, 3}
SeedOids == {1, 2}
\* base prices, in cents, an admin request may carry
Prices == {500, 1000}
\* quantities a request body may carry
Quantities == {1, 2}
\* the ways an identifier may be written in a request body: as storage prints
\* it ("canon") or in another spelling the lookup accepts ("alias": upper-case
\* hex for an ObjectId, a numeric string for an integer key)
Ids ==
    { [oid |-> 1, form |-> "canon"], [oid |-> 1, form |-> "alias"],
      [oid |-> 2, form |-> "canon"], [oid |-> 3, form |-> "canon"] }

\* --------------------------------------------------------------- variables
VARIABLES
    edition,     \* which of the two programs is running
    users,       \* users collection / table, in insertion order
    products,    \* products collection / table
    cart,        \* per user: cart lines in storage order
    orders,      \* orders collection / table, in insertion order
    userOrders,  \* mongodb: the 'orders' array of the user document
    pc,          \* per worker: position in the handler it is serving
    req,         \* per worker: the request being served
    loc,         \* per worker: local variables of the handler
    resp,        \* per worker: the last response it returned
    served,      \* number of requests accepted so far
    solo,        \* history: the worker whose request has run uninterrupted so far
    prev,        \* history: the response returned right before the solo request began
    ledger       \* history: while only add requests were made, the quantities answered 200

vars == <<edition, users, products, cart, orders, userOrders, pc, req, loc, resp, served, solo, prev, ledger>>

\* ----------------------------------------------------------------- helpers
NoId == [oid |-> 0, form |-> "canon"]

NoReq == [op |-> "none", user |-> "none", id |-> NoId, qty |-> 0]

NoLoc == [cart |-> <<>>, orders |-> <<>>, items |-> <<>>, total |-> 0, oid |-> 0, row |-> 0, qty |-> 0, seen |-> 0]

NoResp == [op |-> "none", user |-> "none", status |-> 0, order |-> 0, total |-> 0, count |-> 0]

Idle == {"idle", "done"}

Response(op, user, status, order, total, count) ==
    [op |-> op, user |-> user, status |-> status, order |-> order, total |-> total, count |-> count]

\* ObjectId(s) / the integer coercion of a bound parameter: both spellings
\* of an identifier denote the same key
ParseId(id) == id.oid

\* str(product['_id']) / str(item.product_id): the canonical spelling
CanonId(oid) == [oid |-> oid, form |-> "canon"]

\* calculate_prices: the currencies and their fixed rates, in hundredths
\* (128.5, 3582.34, 2850.0, 2700.0)
exchange_rates == [KES |-> 12850, UGX |-> 358234, BIF |-> 285000, CDF |-> 270000]

Currencies == DOMAIN exchange_rates

currency_symbols == [KES |-> "KSh", UGX |-> "USh", BIF |-> "FBu", CDF |-> "FC"]

currency_countries == [KES |-> "Kenya", UGX |-> "Uganda", BIF |-> "Burundi", CDF |-> "DRC Congo"]

\* a slip: the amount is cut to two decimals instead of rounded
TruncateDiv(n, d) == n \div d

\* round(x, 2) of x = n / (100 * d): the nearest hundredth, an exact tie
\* going to the even one
RoundDiv(n, d) ==
    LET q == n \div d
        r == n % d
    IN IF 2 * r < d THEN q
       ELSE IF 2 * r > d THEN q + 1
       ELSE IF q % 2 = 0 THEN q ELSE q + 1

\* calculate_prices(base_price_usd): amounts in hundredths of the currency
calculate_prices(base_price_usd) ==
    [ currency \in Currencies |->
        [ amount |-> RoundDiv(base_price_usd * exchange_rates[currency], 100),
          symbol |-> currency_symbols[currency],
          country |-> currency_countries[currency] ] ]

NoPrices == [currency \in Currencies |-> [amount |-> 0, symbol |-> "", country |-> ""]]

NoProduct == [live |-> FALSE, name |-> "", price |-> 0, prices |-> NoPrices]

\* products.find_one({'_id': ...}) / Product.query.get / item.product
FindProduct(oid) == IF oid \in Oids /\ products[oid].live THEN products[oid] ELSE NoProduct

\* seed_products / seed_data: the first two seeded prices (29.99, 34.50)
SeedPrice(oid) == IF oid = 1 THEN 2999 ELSE 3450

SeedName(oid) == IF oid = 1 THEN "Complex Clarifier Cream" ELSE "Complexion Clarifier Serum"

\* a product as the catalogue stores it after calculate_prices was applied
Product(name, price) == [live |-> TRUE, name |-> name, price |-> price, prices |-> calculate_prices(price)]

SeedProducts == [o \in Oids |-> IF o \in SeedOids THEN Product(SeedName(o), SeedPrice(o)) ELSE NoProduct]

\* the ledger of add requests: kept until a request other than add touches a cart
NoLedger == [pure |-> FALSE, acked |-> [u \in Users |-> [o \in Oids |-> 0]]]

Acked(u, oid, q) == IF ledger.pure THEN [ledger EXCEPT !.acked[u][oid] = @ + q] ELSE ledger

\* a request is accepted by the idle worker p
Began(p) ==
    /\ pc[p] \in Idle
    /\ \A q \in Procs : q < p => pc[q] \notin Idle
    /\ served < MaxRequests
    /\ served' = served + 1
    /\ solo' = p
    /\ prev' = IF solo \in Procs /\ pc[solo] = "done" THEN resp[solo] ELSE NoResp

\* the worker p goes on with its request
Stepped(p) ==
    /\ served' = served
    /\ solo' = (IF solo = p THEN p ELSE 0)
    /\ prev' = (IF solo = p THEN prev ELSE NoResp)

\* the worker p answers: its request is over
Answer(p, r) ==
    /\ pc' = [pc EXCEPT ![p] = "done"]
    /\ req' = [req EXCEPT ![p] = NoReq]
    /\ loc' = [loc EXCEPT ![p] = NoLoc]
    /\ resp' = [resp EXCEPT ![p] = r]

Goto(p, label, r, l) ==
    /\ pc' = [pc EXCEPT ![p] = label]
    /\ req' = [req EXCEPT ![p] = r]
    /\ loc' = [loc EXCEPT ![p] = l]
    /\ resp' = [resp EXCEPT ![p] = NoResp]

\* str(result.inserted_id) / str(user.id): the identity a token carries,
\* by the position of the account in the collection
UserIds == <<"admin", "u1", "u2", "u3", "u4", "u5">>

\* the address the startup seed gives the admin account it inserts
AdminEmail(ed) == IF ed = "mongodb" THEN "info@queenkoba.com" ELSE "admin@queenkoba.com"

\* the admin account of the startup seed
SeedAdmin(ed, id) ==
    [id |-> id, email |-> AdminEmail(ed), username |-> "admin", role |-> "admin", preferred_currency |-> "KES"]

\* the account a registration stores
Customer(id, email, username, currency) ==
    [id |-> id, email |-> email, username |-> username, role |-> "customer", preferred_currency |-> currency]

\* the accounts after the first startup and the registration of the customers us
StartUsers(ed, us) ==
    <<SeedAdmin(ed, "admin")>> \o [i \in 1..Cardinality(us) |->
        LET u == UserIds[i + 1]
        IN Customer(u, u, IF ed = "mongodb" THEN u ELSE "", "KES")]

\* users.find_one({'_id': ObjectId(user_id)}) / User.query.get
FindUser(id) == CHOOSE i \in 1..Len(users) : users[i].id = id

\* no request is being served
Quiet == \A p \in Procs : pc[p] \in Idle

\* ------------------------------------------------------------------- Init
Init ==
    /\ edition \in Editions
    /\ users = StartUsers(edition, Users)
    /\ products = SeedProducts
    /\ cart = [u \in Users |-> <<>>]
    /\ orders = <<>>
    /\ userOrders = [u \in Users |-> <<>>]
    /\ pc = [p \in Procs |-> "idle"]
    /\ req = [p \in Procs |-> NoReq]
    /\ loc = [p \in Procs |-> NoLoc]
    /\ resp = [p \in Procs |-> NoResp]
    /\ served = 0
    /\ solo = 0
    /\ prev = NoResp
    /\ ledger = [NoLedger EXCEPT !.pure = TRUE]

\* ------------------------------------------- mongodb: POST /cart/add
FirstLine(c, id) == CHOOSE i \in 1..Len(c) : c[i].id = id /\ \A j \in 1..(i - 1) : c[j].id # id

\* lines 432-447: merge by product_id, compared as the strings they are
MAddLine(c, id, q) ==
    IF \E i \in 1..Len(c) : c[i].id = id
    THEN [c EXCEPT ![FirstLine(c, id)].qty = @ + q]
    ELSE Append(c, [id |-> id, qty |-> q, rid |-> 0])

\* lines 415-425: validation and the product lookup
MAddBegin(p, u, id, q) ==
    /\ edition = "mongodb"
    /\ Began(p)
    /\ UNCHANGED <<edition, users, products, cart, orders, userOrders, ledger>>
    /\ IF q = 0
       THEN Answer(p, Response("add", u, 400, 0, 0, 0))
       ELSE IF ~FindProduct(ParseId(id)).live
       THEN Answer(p, Response("add", u, 404, 0, 0, 0))
       ELSE Goto(p, "add_user", [op |-> "add", user |-> u, id |-> id, qty |-> q], NoLoc)

\* lines 427-447: read the user document, merge the line into the local cart
MAddUser(p) ==
    /\ edition = "mongodb"
    /\ pc[p] = "add_user"
    /\ Goto(p, "add_write", req[p],
            [NoLoc EXCEPT !.cart = MAddLine(cart[req[p].user], req[p].id, req[p].qty)])
    /\ Stepped(p)
    /\ UNCHANGED <<edition, users, products, cart, orders, userOrders, ledger>>

\* lines 449-459: $set the whole cart
MAddWrite(p) ==
    /\ edition = "mongodb"
    /\ pc[p] = "add_write"
    /\ cart' = [cart EXCEPT ![req[p].user] = loc[p].cart]
    /\ Answer(p, Response("add", req[p].user, 200, 0, 0, Len(loc[p].cart)))
    /\ ledger' = Acked(req[p].user, ParseId(req[p].id), req[p].qty)
    /\ Stepped(p)
    /\ UNCHANGED <<edition, users, products, orders, userOrders>>

\* ------------------------------------------- mongodb: DELETE /cart/remove/<id>
\* line 477: keep the lines whose product_id differs from the path's id
RECURSIVE MRemoveLine(_, _)
MRemoveLine(c, id) ==
    IF c = <<>> THEN <<>>
    ELSE IF Head(c).id = id THEN MRemoveLine(Tail(c), id)
    ELSE <<Head(c)>> \o MRemoveLine(Tail(c), id)

\* a slip: a product without a line in the cart is answered 404
MRemoveBeginStrict(p, u, id) ==
    /\ edition = "mongodb"
    /\ Began(p)
    /\ IF \A i \in 1..Len(cart[u]) : cart[u][i].id # id
       THEN Answer(p, Response("remove", u, 404, 0, 0, 0))
       ELSE Goto(p, "rm_write", [op |-> "remove", user |-> u, id |-> id, qty |-> 0],
                 [NoLoc EXCEPT !.cart = MRemoveLine(cart[u], id)])
    /\ ledger' = NoLedger
    /\ UNCHANGED <<edition, users, products, cart, orders, userOrders>>

\* lines 468-477: read the user document, filter the local cart
MRemoveBegin(p, u, id) ==
    /\ edition = "mongodb"
    /\ Began(p)
    /\ Goto(p, "rm_write", [op |-> "remove", user |-> u, id |-> id, qty |-> 0],
            [NoLoc EXCEPT !.cart = MRemoveLine(cart[u], id)])
    /\ ledger' = NoLedger
    /\ UNCHANGED <<edition, users, products, cart, orders, userOrders>>

\* lines 479-489: $set the whole cart
MRemoveWrite(p) ==
    /\ edition = "mongodb"
    /\ pc[p] = "rm_write"
    /\ cart' = [cart EXCEPT ![req[p].user] = loc[p].cart]
    /\ Answer(p, Response("remove", req[p].user, 200, 0, 0, Len(loc[p].cart)))
    /\ Stepped(p)
    /\ UNCHANGED <<edition, users, products, orders, userOrders, ledger>>

\* ------------------------------------------- checkout, both editions
\* a slip the order total would show: the line total forgets the quantity
OrderItemOfOne(line, product) ==
    [ product_id |-> ParseId(line.id),
      product_name |-> product.name,
      quantity |-> line.qty,
      price_per_item |-> product.price,
      item_total |-> product.price ]

\* one line item of an order: lines 518-527 / 395-403
OrderItem(line, product) ==
    [ product_id |-> ParseId(line.id),
      product_name |-> product.name,
      quantity |-> line.qty,
      price_per_item |-> product.price,
      item_total |-> product.price * line.qty ]

\* mongodb lines 515-527: the loop over the cart; a line whose product is
\* not found adds nothing
RECURSIVE MPriceItems(_)
MPriceItems(c) ==
    IF c = <<>> THEN <<>>
    ELSE LET product == FindProduct(ParseId(Head(c).id))
         IN (IF product.live THEN <<OrderItem(Head(c), product)>> ELSE <<>>)
            \o MPriceItems(Tail(c))

\* total_usd += item_total, in the order of the items
RECURSIVE SumTotals(_)
SumTotals(items) ==
    IF items = <<>> THEN 0 ELSE Head(items).item_total + SumTotals(Tail(items))

\* the order document: lines 530-541 / 405-414
\* (seen is history: how many orders there were when the cart was read)
\* order_id is a code no other order has
NewOrder(u, items, total, seen) ==
    [order_id |-> Len(orders) + 1, user |-> u, items |-> items, total_usd |-> total, seen |-> seen]

\* ------------------------------------------- mongodb: POST /checkout
\* a slip: the empty-cart test is left out
MCheckoutBeginUnguarded(p, u) ==
    /\ edition = "mongodb"
    /\ Began(p)
    /\ ledger' = NoLedger
    /\ UNCHANGED <<edition, users, products, cart, orders, userOrders>>
    /\ Goto(p, "co_price", [op |-> "checkout", user |-> u, id |-> NoId, qty |-> 0],
            [NoLoc EXCEPT !.cart = cart[u], !.orders = userOrders[u], !.seen = Len(orders)])

\* lines 502-509: read the user document; an empty cart answers 400
MCheckoutBegin(p, u) ==
    /\ edition = "mongodb"
    /\ Began(p)
    /\ ledger' = NoLedger
    /\ UNCHANGED <<edition, users, products, cart, orders, userOrders>>
    /\ IF Len(cart[u]) = 0
       THEN Answer(p, Response("checkout", u, 400, 0, 0, 0))
       ELSE Goto(p, "co_price", [op |-> "checkout", user |-> u, id |-> NoId, qty |-> 0],
                 [NoLoc EXCEPT !.cart = cart[u], !.orders = userOrders[u], !.seen = Len(orders)])

\* lines 511-541: look every product up, build the order document
MCheckoutPrice(p) ==
    /\ edition = "mongodb"
    /\ pc[p] = "co_price"
    /\ LET items == MPriceItems(loc[p].cart)
       IN Goto(p, "co_insert", req[p], [loc[p] EXCEPT !.items = items, !.total = SumTotals(items)])
    /\ Stepped(p)
    /\ UNCHANGED <<edition, users, products, cart, orders, userOrders, ledger>>

\* a slip: the order document is written over the last order there is
MCheckoutInsertOver(p) ==
    /\ edition = "mongodb"
    /\ pc[p] = "co_insert"
    /\ LET o == NewOrder(req[p].user, loc[p].items, loc[p].total, loc[p].seen)
       IN orders' = IF orders = <<>> THEN <<o>> ELSE [orders EXCEPT ![Len(orders)] = o]
    /\ Goto(p, "co_clear", req[p], [loc[p] EXCEPT !.oid = IF orders = <<>> THEN 1 ELSE Len(orders)])
    /\ Stepped(p)
    /\ UNCHANGED <<edition, users, products, cart, userOrders, ledger>>

\* lines 543-545: orders.insert_one
MCheckoutInsert(p) ==
    /\ edition = "mongodb"
    /\ pc[p] = "co_insert"
    /\ orders' = Append(orders, NewOrder(req[p].user, loc[p].items, loc[p].total, loc[p].seen))
    /\ Goto(p, "co_clear", req[p], [loc[p] EXCEPT !.oid = Len(orders) + 1])
    /\ Stepped(p)
    /\ UNCHANGED <<edition, users, products, cart, userOrders, ledger>>

\* a slip: the cart is written back as it was read
MCheckoutKeepCart(p) ==
    /\ edition = "mongodb"
    /\ pc[p] = "co_clear"
    /\ cart' = [cart EXCEPT ![req[p].user] = loc[p].cart]
    /\ Goto(p, "co_link", req[p], loc[p])
    /\ Stepped(p)
    /\ UNCHANGED <<edition, users, products, orders, userOrders, ledger>>

\* lines 547-551: $set cart to []
MCheckoutClear(p) ==
    /\ edition = "mongodb"
    /\ pc[p] = "co_clear"
    /\ cart' = [cart EXCEPT ![req[p].user] = <<>>]
    /\ Goto(p, "co_link", req[p], loc[p])
    /\ Stepped(p)
    /\ UNCHANGED <<edition, users, products, orders, userOrders, ledger>>

\* a slip: the list is written back without the new id
MCheckoutLinkNothing(p) ==
    /\ edition = "mongodb"
    /\ pc[p] = "co_link"
    /\ userOrders' = [userOrders EXCEPT ![req[p].user] = loc[p].orders]
    /\ Answer(p, Response("checkout", req[p].user, 200, loc[p].oid, loc[p].total, Len(loc[p].items)))
    /\ Stepped(p)
    /\ UNCHANGED <<edition, users, products, cart, orders, ledger>>

\* lines 553-568: $set orders to the list read at the start plus the new id
MCheckoutLink(p) ==
    /\ edition = "mongodb"
    /\ pc[p] = "co_link"
    /\ userOrders' = [userOrders EXCEPT ![req[p].user] = Append(loc[p].orders, loc[p].oid)]
    /\ Answer(p, Response("checkout", req[p].user, 200, loc[p].oid, loc[p].total, Len(loc[p].items)))
    /\ Stepped(p)
    /\ UNCHANGED <<edition, users, products, cart, orders, ledger>>

\* ------------------------------------------- postgresql: POST /cart/add
\* cart_items.id of an INSERT: a key no row and no worker holds
UsedRids ==
    UNION {{cart[u][i].rid : i \in 1..Len(cart[u])} : u \in DOMAIN cart} \cup {loc[p].row : p \in Procs}

FreshRid == CHOOSE r \in 1..(Cardinality(UsedRids) + 1) : r \notin UsedRids /\ \A k \in 1..(r - 1) : k \in UsedRids

\* the rows of a user's cart that filter_by(product_id) matches
PMatchingRows(c, id) == {i \in 1..Len(c) : c[i].id = CanonId(ParseId(id))}

\* the position of the row with primary key rid, 0 when it is gone
PRowAt(c, rid) == IF \E i \in 1..Len(c) : c[i].rid = rid THEN CHOOSE i \in 1..Len(c) : c[i].rid = rid ELSE 0

\* a slip: the product is not looked up before the cart row is
PAddBeginUnchecked(p, u, id, q) ==
    /\ edition = "postgresql"
    /\ Began(p)
    /\ UNCHANGED <<edition, users, products, cart, orders, userOrders, ledger>>
    /\ Goto(p, "padd_find", [op |-> "add", user |-> u, id |-> id, qty |-> q], NoLoc)

\* lines 364-367: Product.query.get_or_404
PAddBegin(p, u, id, q) ==
    /\ edition = "postgresql"
    /\ Began(p)
    /\ UNCHANGED <<edition, users, products, cart, orders, userOrders, ledger>>
    /\ IF ~FindProduct(ParseId(id)).live
       THEN Answer(p, Response("add", u, 404, 0, 0, 0))
       ELSE Goto(p, "padd_find", [op |-> "add", user |-> u, id |-> id, qty |-> q], NoLoc)

\* lines 369-375: what the session holds after .first() returned row i of
\* the cart (0: no row): the row to UPDATE and the quantity computed for it
PPending(c, i, q) ==
    IF i = 0 THEN [row |-> 0, qty |-> q] ELSE [row |-> c[i].rid, qty |-> c[i].qty + q]

\* the rows .first() may return: the matching rows come in no stated order
PFirst(c, id) == IF PMatchingRows(c, id) = {} THEN {0} ELSE PMatchingRows(c, id)

\* line 372 flushed: UPDATE cart_items SET quantity = <computed> WHERE id = <row>
PUpdateRow(c, at, qty) == [c EXCEPT ![at].qty = qty]

\* lines 374-375 flushed: INSERT INTO cart_items
PInsertRow(c, id, qty, rid) == Append(c, [id |-> CanonId(ParseId(id)), qty |-> qty, rid |-> rid])

PAddFind(p) ==
    /\ edition = "postgresql"
    /\ pc[p] = "padd_find"
    /\ \E i \in PFirst(cart[req[p].user], req[p].id) :
          LET pending == PPending(cart[req[p].user], i, req[p].qty)
          IN Goto(p, "padd_commit", req[p], [NoLoc EXCEPT !.row = pending.row, !.qty = pending.qty])
    /\ Stepped(p)
    /\ UNCHANGED <<edition, users, products, cart, orders, userOrders, ledger>>

\* lines 377-379: commit; an UPDATE that matches no row and an INSERT whose
\* product is gone raise
PAddCommit(p) ==
    /\ edition = "postgresql"
    /\ pc[p] = "padd_commit"
    /\ LET u == req[p].user
           at == PRowAt(cart[u], loc[p].row)
           failed == IF loc[p].row # 0 THEN at = 0 ELSE ~FindProduct(ParseId(req[p].id)).live
       IN IF failed
          THEN /\ Answer(p, Response("add", u, 500, 0, 0, 0))
               /\ UNCHANGED <<cart, ledger>>
          ELSE /\ cart' = [cart EXCEPT ![u] = IF loc[p].row # 0
                                              THEN PUpdateRow(@, at, loc[p].qty)
                                              ELSE PInsertRow(@, req[p].id, loc[p].qty, FreshRid)]
               /\ Answer(p, Response("add", u, 200, 0, 0, 0))
               /\ ledger' = Acked(u, ParseId(req[p].id), req[p].qty)
    /\ Stepped(p)
    /\ UNCHANGED <<edition, users, products, orders, userOrders>>

\* ------------------------------------------- postgresql: POST /checkout
\* lines 394-403: every row contributes an item
RECURSIVE PPriceItems(_)
PPriceItems(c) ==
    IF c = <<>> THEN <<>>
    ELSE <<OrderItem(Head(c), FindProduct(ParseId(Head(c).id)))>> \o PPriceItems(Tail(c))

\* lines 387-389: the cart rows of the user; none answers 400
PCheckoutBegin(p, u) ==
    /\ edition = "postgresql"
    /\ Began(p)
    /\ ledger' = NoLedger
    /\ UNCHANGED <<edition, users, products, cart, orders, userOrders>>
    /\ IF Len(cart[u]) = 0
       THEN Answer(p, Response("checkout", u, 400, 0, 0, 0))
       ELSE Goto(p, "pco_price", [op |-> "checkout", user |-> u, id |-> NoId, qty |-> 0],
                 [NoLoc EXCEPT !.cart = cart[u], !.seen = Len(orders)])

\* a slip: a row whose product is gone is left out, whatever is left
PCheckoutPriceSkipping(p) ==
    /\ edition = "postgresql"
    /\ pc[p] = "pco_price"
    /\ LET items == MPriceItems(loc[p].cart)
       IN Goto(p, "pco_commit", req[p], [loc[p] EXCEPT !.items = items, !.total = SumTotals(items)])
    /\ Stepped(p)
    /\ UNCHANGED <<edition, users, products, cart, orders, userOrders, ledger>>

\* lines 391-414: item.product is loaded for every row; a row whose product
\* is gone raises on item.product.base_price_usd
PCheckoutPrice(p) ==
    /\ edition = "postgresql"
    /\ pc[p] = "pco_price"
    /\ IF \E i \in 1..Len(loc[p].cart) : ~FindProduct(ParseId(loc[p].cart[i].id)).live
       THEN Answer(p, Response("checkout", req[p].user, 500, 0, 0, 0))
       ELSE LET items == PPriceItems(loc[p].cart)
            IN Goto(p, "pco_commit", req[p], [loc[p] EXCEPT !.items = items, !.total = SumTotals(items)])
    /\ Stepped(p)
    /\ UNCHANGED <<edition, users, products, cart, orders, userOrders, ledger>>

\* a slip: the DELETE of the cart rows is left out
PCheckoutCommitKeepRows(p) ==
    /\ edition = "postgresql"
    /\ pc[p] = "pco_commit"
    /\ orders' = Append(orders, NewOrder(req[p].user, loc[p].items, loc[p].total, loc[p].seen))
    /\ Answer(p, Response("checkout", req[p].user, 200, Len(orders) + 1, loc[p].total, 0))
    /\ Stepped(p)
    /\ UNCHANGED <<edition, users, products, cart, userOrders, ledger>>

\* a slip: the DELETE has no filter on the user
PCheckoutCommitAllRows(p) ==
    /\ edition = "postgresql"
    /\ pc[p] = "pco_commit"
    /\ orders' = Append(orders, NewOrder(req[p].user, loc[p].items, loc[p].total, loc[p].seen))
    /\ cart' = [u \in DOMAIN cart |-> <<>>]
    /\ Answer(p, Response("checkout", req[p].user, 200, Len(orders) + 1, loc[p].total, 0))
    /\ Stepped(p)
    /\ UNCHANGED <<edition, users, products, userOrders, ledger>>

\* lines 416-424: INSERT the order, DELETE the user's cart rows, one commit
PCheckoutCommit(p) ==
    /\ edition = "postgresql"
    /\ pc[p] = "pco_commit"
    /\ orders' = Append(orders, NewOrder(req[p].user, loc[p].items, loc[p].total, loc[p].seen))
    /\ cart' = [cart EXCEPT ![req[p].user] = <<>>]
    /\ Answer(p, Response("checkout", req[p].user, 200, Len(orders) + 1, loc[p].total, 0))
    /\ Stepped(p)
    /\ UNCHANGED <<edition, users, products, userOrders, ledger>>

\* ------------------------------------------- postgresql: PUT /admin/products/<id>
\* a slip: the new price is carried into the items of the orders
Repriced(o, oid, price) ==
    [o EXCEPT !.items = [k \in 1..Len(o.items) |->
        IF o.items[k].product_id = oid
        THEN [o.items[k] EXCEPT !.price_per_item = price, !.item_total = price * o.items[k].quantity]
        ELSE o.items[k]]]

PAdminPutRepricing(p, oid, price) ==
    /\ edition = "postgresql"
    /\ Began(p)
    /\ IF ~FindProduct(oid).live
       THEN /\ Answer(p, Response("put", "none", 404, 0, 0, 0))
            /\ UNCHANGED <<products, orders>>
       ELSE /\ products' = [products EXCEPT ![oid].price = price]
            /\ orders' = [n \in 1..Len(orders) |-> Repriced(orders[n], oid, price)]
            /\ Answer(p, Response("put", "none", 200, 0, 0, 0))
    /\ UNCHANGED <<edition, users, cart, userOrders, ledger>>

\* lines 515-528: get_or_404, setattr of every key of the body, commit; the
\* body carries base_price_usd
PAdminPut(p, oid, price) ==
    /\ edition = "postgresql"
    /\ Began(p)
    /\ IF ~FindProduct(oid).live
       THEN /\ Answer(p, Response("put", "none", 404, 0, 0, 0))
            /\ UNCHANGED products
       ELSE /\ products' = [products EXCEPT ![oid].price = price]
            /\ Answer(p, Response("put", "none", 200, 0, 0, 0))
    /\ UNCHANGED <<edition, users, cart, orders, userOrders, ledger>>

\* ------------------------------------------- postgresql: the other catalogue routes
\* the keys products.id has never handed out
UnusedOids == {o \in Oids : products[o] = NoProduct}

\* lines 505-511: POST /admin/products; Product(**data), the price map
\* computed from the base price, commit; the catalogue is followed while it
\* has a key of Oids left
PAdminPost(p, name, price) ==
    /\ edition = "postgresql"
    /\ Began(p)
    /\ UnusedOids # {}
    /\ LET oid == CHOOSE o \in UnusedOids : \A o2 \in UnusedOids : o <= o2
       IN /\ products' = [products EXCEPT ![oid] = Product(name, price)]
          /\ Answer(p, Response("post", "none", 201, 0, 0, 0))
    /\ UNCHANGED <<edition, users, cart, orders, userOrders, ledger>>

\* lines 523-528 with a body that carries name
PAdminRename(p, oid, name) ==
    /\ edition = "postgresql"
    /\ Began(p)
    /\ IF ~FindProduct(oid).live
       THEN /\ Answer(p, Response("put", "none", 404, 0, 0, 0))
            /\ UNCHANGED products
       ELSE /\ products' = [products EXCEPT ![oid].name = name]
            /\ Answer(p, Response("put", "none", 200, 0, 0, 0))
    /\ UNCHANGED <<edition, users, cart, orders, userOrders, ledger>>

\* the product is referenced by a row of cart_items (the foreign key of line 84)
Referenced(oid) == \E u \in DOMAIN cart : \E i \in 1..Len(cart[u]) : ParseId(cart[u][i].id) = oid

\* lines 515-521: DELETE /admin/products/<id>; the foreign key refuses the
\* delete of a product a cart row references, and the request dies of it.
\* The row is gone but its key is never handed out again.
PAdminDelete(p, oid) ==
    /\ edition = "postgresql"
    /\ Began(p)
    /\ IF ~FindProduct(oid).live
       THEN /\ Answer(p, Response("delete", "none", 404, 0, 0, 0))
            /\ UNCHANGED products
       ELSE IF Referenced(oid)
       THEN /\ Answer(p, Response("delete", "none", 500, 0, 0, 0))
            /\ UNCHANGED products
       ELSE /\ products' = [products EXCEPT ![oid].live = FALSE]
            /\ Answer(p, Response("delete", "none", 200, 0, 0, 0))
    /\ UNCHANGED <<edition, users, cart, orders, userOrders, ledger>>

\* ------------------------------------------- GET /cart, both editions
\* mongodb lines 379-384: a line whose product is not found adds nothing
RECURSIVE MCartTotal(_)
MCartTotal(c) ==
    IF c = <<>> THEN 0
    ELSE LET product == FindProduct(ParseId(Head(c).id))
         IN (IF product.live THEN product.price * Head(c).qty ELSE 0) + MCartTotal(Tail(c))

\* postgresql line 348: the sum over all rows
RECURSIVE PCartTotal(_)
PCartTotal(c) ==
    IF c = <<>> THEN 0
    ELSE FindProduct(ParseId(Head(c).id)).price * Head(c).qty + PCartTotal(Tail(c))

\* mongodb lines 369-375: read the user document
MGetCartBegin(p, u) ==
    /\ edition = "mongodb"
    /\ Began(p)
    /\ Goto(p, "gc_price", [op |-> "cart", user |-> u, id |-> NoId, qty |-> 0], [NoLoc EXCEPT !.cart = cart[u]])
    /\ ledger' = NoLedger
    /\ UNCHANGED <<edition, users, products, cart, orders, userOrders>>

\* mongodb lines 377-406: look every product up, answer the total
MGetCartPrice(p) ==
    /\ edition = "mongodb"
    /\ pc[p] = "gc_price"
    /\ Answer(p, Response("cart", req[p].user, 200, 0, MCartTotal(loc[p].cart), Len(loc[p].cart)))
    /\ Stepped(p)
    /\ UNCHANGED <<edition, users, products, cart, orders, userOrders, ledger>>

\* postgresql lines 345-346: the cart rows of the user
PGetCartBegin(p, u) ==
    /\ edition = "postgresql"
    /\ Began(p)
    /\ Goto(p, "pgc_price", [op |-> "cart", user |-> u, id |-> NoId, qty |-> 0], [NoLoc EXCEPT !.cart = cart[u]])
    /\ ledger' = NoLedger
    /\ UNCHANGED <<edition, users, products, cart, orders, userOrders>>

\* postgresql lines 348-359: item.product is loaded for every row; a row
\* whose product is gone raises on item.product.base_price_usd
PGetCartPrice(p) ==
    /\ edition = "postgresql"
    /\ pc[p] = "pgc_price"
    /\ IF \E i \in 1..Len(loc[p].cart) : ~FindProduct(ParseId(loc[p].cart[i].id)).live
       THEN Answer(p, Response("cart", req[p].user, 500, 0, 0, 0))
       ELSE Answer(p, Response("cart", req[p].user, 200, 0, PCartTotal(loc[p].cart), Len(loc[p].cart)))
    /\ Stepped(p)
    /\ UNCHANGED <<edition, users, products, cart, orders, userOrders, ledger>>

\* the order ids a user is linked to: the 'orders' array of the user
\* document / the User.orders relationship over orders.user_id
RECURSIVE OrdersOf(_, _)
OrdersOf(u, n) ==
    IF n = 0 THEN <<>>
    ELSE OrdersOf(u, n - 1) \o (IF orders[n].user = u THEN <<n>> ELSE <<>>)

OrderRefs(u) == IF edition = "mongodb" THEN userOrders[u] ELSE OrdersOf(u, Len(orders))

\* ------------------------------------------- a request that dies
\* a storage call raises: mongodb answers 500 from its except clause with
\* the writes already made left in place; postgresql never commits
StorageFailure(p) ==
    /\ pc[p] \notin Idle
    /\ Answer(p, Response(req[p].op, req[p].user, 500, 0, 0, 0))
    /\ Stepped(p)
    /\ UNCHANGED <<edition, users, products, cart, orders, userOrders, ledger>>

Next ==
    \/ \E p \in Procs, u \in Users, id \in Ids, q \in Quantities : MAddBegin(p, u, id, q)
    \/ \E p \in Procs : MAddUser(p)
    \/ \E p \in Procs : MAddWrite(p)
    \/ \E p \in Procs, u \in Users, id \in Ids : MRemoveBegin(p, u, id)
    \/ \E p \in Procs : MRemoveWrite(p)
    \/ \E p \in Procs, u \in Users : MCheckoutBegin(p, u)
    \/ \E p \in Procs : MCheckoutPrice(p)
    \/ \E p \in Procs : MCheckoutInsert(p)
    \/ \E p \in Procs : MCheckoutClear(p)
    \/ \E p \in Procs : MCheckoutLink(p)
    \/ \E p \in Procs, u \in Users, id \in Ids, q \in Quantities : PAddBegin(p, u, id, q)
    \/ \E p \in Procs : PAddFind(p)
    \/ \E p \in Procs : PAddCommit(p)
    \/ \E p \in Procs, u \in Users : PCheckoutBegin(p, u)
    \/ \E p \in Procs : PCheckoutPrice(p)
    \/ \E p \in Procs : PCheckoutCommit(p)
    \/ \E p \in Procs, oid \in Oids, price \in Prices : PAdminPut(p, oid, price)
    \/ \E p \in Procs : StorageFailure(p)

Spec == Init /\ [][Next]_vars

\* ------------------------------------------- requests with any quantity
\* the quantities a request body may carry when the client does not keep to
\* positive ones
AnyQuantities == {-1, 0, 1}

\* an existing product and an identifier that is no product
QtyIds == {CanonId(1), CanonId(3)}

NextQty ==
    \/ \E p \in Procs, u \in Users, id \in QtyIds, q \in AnyQuantities : MAddBegin(p, u, id, q)
    \/ \E p \in Procs : MAddUser(p)
    \/ \E p \in Procs : MAddWrite(p)
    \/ \E p \in Procs, u \in Users, id \in QtyIds : MRemoveBegin(p, u, id)
    \/ \E p \in Procs : MRemoveWrite(p)
    \/ \E p \in Procs, u \in Users : MCheckoutBegin(p, u)
    \/ \E p \in Procs : MCheckoutPrice(p)
    \/ \E p \in Procs : MCheckoutInsert(p)
    \/ \E p \in Procs : MCheckoutClear(p)
    \/ \E p \in Procs : MCheckoutLink(p)
    \/ \E p \in Procs, u \in Users, id \in QtyIds, q \in AnyQuantities : PAddBegin(p, u, id, q)
    \/ \E p \in Procs : PAddFind(p)
    \/ \E p \in Procs : PAddCommit(p)
    \/ \E p \in Procs, u \in Users : PCheckoutBegin(p, u)
    \/ \E p \in Procs : PCheckoutPrice(p)
    \/ \E p \in Procs : PCheckoutCommit(p)

SpecQty == Init /\ [][NextQty]_vars

\* ------------------------------------------- the catalogue changes under the carts
\* a cart the user has filled before: two of product 1 and one of product 2
StartLine(oid, q) == [id |-> CanonId(oid), qty |-> q, rid |-> IF edition = "postgresql" THEN oid ELSE 0]

StartCarts == {<<>>, <<StartLine(1, 2)>>, <<StartLine(1, 2), StartLine(2, 1)>>}

\* what an admin request may carry
CatalogNames == {"Renewal Scrub"}

CatalogPrices == {500}

CatalogIds == {CanonId(o) : o \in Oids}

InitCatalog ==
    /\ edition \in Editions
    /\ users = StartUsers(edition, Users)
    /\ products = SeedProducts
    /\ cart \in [Users -> StartCarts]
    /\ orders = <<>>
    /\ userOrders = [u \in Users |-> <<>>]
    /\ pc = [p \in Procs |-> "idle"]
    /\ req = [p \in Procs |-> NoReq]
    /\ loc = [p \in Procs |-> NoLoc]
    /\ resp = [p \in Procs |-> NoResp]
    /\ served = 0
    /\ solo = 0
    /\ prev = NoResp
    /\ ledger = NoLedger

NextCatalog ==
    \/ \E p \in Procs, u \in Users, id \in CatalogIds : MAddBegin(p, u, id, 1)
    \/ \E p \in Procs : MAddUser(p)
    \/ \E p \in Procs : MAddWrite(p)
    \/ \E p \in Procs, u \in Users : MCheckoutBegin(p, u)
    \/ \E p \in Procs : MCheckoutPrice(p)
    \/ \E p \in Procs : MCheckoutInsert(p)
    \/ \E p \in Procs : MCheckoutClear(p)
    \/ \E p \in Procs : MCheckoutLink(p)
    \/ \E p \in Procs, u \in Users : MGetCartBegin(p, u)
    \/ \E p \in Procs : MGetCartPrice(p)
    \/ \E p \in Procs, u \in Users, id \in CatalogIds : PAddBegin(p, u, id, 1)
    \/ \E p \in Procs : PAddFind(p)
    \/ \E p \in Procs : PAddCommit(p)
    \/ \E p \in Procs, u \in Users : PCheckoutBegin(p, u)
    \/ \E p \in Procs : PCheckoutPrice(p)
    \/ \E p \in Procs : PCheckoutCommit(p)
    \/ \E p \in Procs, u \in Users : PGetCartBegin(p, u)
    \/ \E p \in Procs : PGetCartPrice(p)
    \/ \E p \in Procs, name \in CatalogNames, price \in CatalogPrices : PAdminPost(p, name, price)
    \/ \E p \in Procs, oid \in Oids, price \in CatalogPrices : PAdminPut(p, oid, price)
    \/ \E p \in Procs, oid \in Oids, name \in CatalogNames : PAdminRename(p, oid, name)
    \/ \E p \in Procs, oid \in Oids : PAdminDelete(p, oid)

SpecCatalog == InitCatalog /\ [][NextCatalog]_vars

\* ------------------------------------------- calculate_prices over a range of base prices
\* the largest base price, in cents, a new product is given
MaxPrice == 150

PriceRange == 0..MaxPrice

InitPricing == Init /\ edition = "postgresql"

NextPricing ==
    \E p \in Procs, name \in CatalogNames, price \in PriceRange : PAdminPost(p, name, price)

SpecPricing == InitPricing /\ [][NextPricing]_vars

\* ------------------------------------------- one request after the other
\* the quantities and products of the requests of a single client
SerialQuantities == {0, 1, 2}

SerialIds == {CanonId(o) : o \in SeedOids}

\* a request is accepted only when no other is being served
NextSerial ==
    \/ Quiet /\ \E p \in Procs, u \in Users, id \in SerialIds, q \in SerialQuantities : MAddBegin(p, u, id, q)
    \/ \E p \in Procs : MAddUser(p)
    \/ \E p \in Procs : MAddWrite(p)
    \/ Quiet /\ \E p \in Procs, u \in Users : MCheckoutBegin(p, u)
    \/ \E p \in Procs : MCheckoutPrice(p)
    \/ \E p \in Procs : MCheckoutInsert(p)
    \/ \E p \in Procs : MCheckoutClear(p)
    \/ \E p \in Procs : MCheckoutLink(p)
    \/ Quiet /\ \E p \in Procs, u \in Users, id \in SerialIds, q \in SerialQuantities : PAddBegin(p, u, id, q)
    \/ \E p \in Procs : PAddFind(p)
    \/ \E p \in Procs : PAddCommit(p)
    \/ Quiet /\ \E p \in Procs, u \in Users : PCheckoutBegin(p, u)
    \/ \E p \in Procs : PCheckoutPrice(p)
    \/ \E p \in Procs : PCheckoutCommit(p)

SpecSerial == Init /\ [][NextSerial]_vars

\* what POST /cart/add, run alone in edition ed from cart c, may answer and
\* leave: mongodb lines 418-459, postgresql lines 367-379
SerialAdd(ed, c, id, q) ==
    IF ed = "mongodb" /\ q = 0 THEN {[status |-> 400, cart |-> c]}
    ELSE IF ~FindProduct(ParseId(id)).live THEN {[status |-> 404, cart |-> c]}
    ELSE IF ed = "mongodb" THEN {[status |-> 200, cart |-> MAddLine(c, id, q)]}
    ELSE { [status |-> 200,
            cart |-> IF i = 0
                     THEN PInsertRow(c, id, PPending(c, i, q).qty, Len(c) + 1)
                     ELSE PUpdateRow(c, i, PPending(c, i, q).qty)] : i \in PFirst(c, id) }

\* what POST /checkout, run alone in edition ed from cart c, answers,
\* leaves and orders: mongodb lines 502-568, postgresql lines 387-424
SerialCheckout(ed, c) ==
    IF c = <<>> THEN [status |-> 400, cart |-> c, items |-> <<>>, total |-> 0]
    ELSE IF ed = "mongodb"
    THEN [status |-> 200, cart |-> <<>>, items |-> MPriceItems(c), total |-> SumTotals(MPriceItems(c))]
    ELSE IF \E i \in 1..Len(c) : ~FindProduct(ParseId(c[i].id)).live
    THEN [status |-> 500, cart |-> c, items |-> <<>>, total |-> 0]
    ELSE [status |-> 200, cart |-> <<>>, items |-> PPriceItems(c), total |-> SumTotals(PPriceItems(c))]

\* ------------------------------------------- two customers
TwoUsers == {"u1", "u2"}

\* the carts earlier requests have left the two: two of product 1 for u1,
\* none or one of product 2 for u2
UserStartCarts(u) ==
    IF u = "u1"
    THEN {<<StartLine(1, 2)>>}
    ELSE {<<>>, <<StartLine(2, 1)>>}

InitUsers ==
    /\ edition \in Editions
    /\ users = StartUsers(edition, TwoUsers)
    /\ products = SeedProducts
    /\ cart \in [TwoUsers -> UNION {UserStartCarts(u) : u \in TwoUsers}]
    /\ \A u \in TwoUsers : cart[u] \in UserStartCarts(u)
    /\ orders = <<>>
    /\ userOrders = [u \in TwoUsers |-> <<>>]
    /\ pc = [p \in Procs |-> "idle"]
    /\ req = [p \in Procs |-> NoReq]
    /\ loc = [p \in Procs |-> NoLoc]
    /\ resp = [p \in Procs |-> NoResp]
    /\ served = 0
    /\ solo = 0
    /\ prev = NoResp
    /\ ledger = NoLedger

NextUsers ==
    \/ \E p \in Procs, u \in TwoUsers, id \in SerialIds : MAddBegin(p, u, id, 1)
    \/ \E p \in Procs : MAddUser(p)
    \/ \E p \in Procs : MAddWrite(p)
    \/ \E p \in Procs, u \in TwoUsers, id \in SerialIds : MRemoveBegin(p, u, id)
    \/ \E p \in Procs : MRemoveWrite(p)
    \/ \E p \in Procs, u \in TwoUsers : MCheckoutBegin(p, u)
    \/ \E p \in Procs : MCheckoutPrice(p)
    \/ \E p \in Procs : MCheckoutInsert(p)
    \/ \E p \in Procs : MCheckoutClear(p)
    \/ \E p \in Procs : MCheckoutLink(p)
    \/ \E p \in Procs, u \in TwoUsers, id \in SerialIds : PAddBegin(p, u, id, 1)
    \/ \E p \in Procs : PAddFind(p)
    \/ \E p \in Procs : PAddCommit(p)
    \/ \E p \in Procs, u \in TwoUsers : PCheckoutBegin(p, u)
    \/ \E p \in Procs : PCheckoutPrice(p)
    \/ \E p \in Procs : PCheckoutCommit(p)

SpecUsers == InitUsers /\ [][NextUsers]_vars

\* ------------------------------------------------ accounts: registration
\* the addresses a registration may carry ("absent": the field is missing)
RegEmails == {"amina@example.com", "admin@queenkoba.com", "absent"}

\* the user names a mongodb registration may carry
RegNames == {"amina", "zuri"}

\* the preferred_currency a mongodb registration may carry
RegCurrencies == {"absent", "UGX", "USD"}

\* the identity the next inserted account gets
NewUserId == UserIds[Len(users) + 1]

\* users.find_one({'email': ...}) / filter_by(email=...).first() finds an account
EmailTaken(email) == \E i \in 1..Len(users) : users[i].email = email

\* users.find_one({'username': ...}) finds an account
NameTaken(name) == \E i \in 1..Len(users) : users[i].username = name

\* data.get('preferred_currency', 'KES')
StoredCurrency(c) == IF c = "absent" THEN "KES" ELSE c

\* mongodb lines 240-249: required fields, then find_one by email
MRegisterBegin(p, email, name, c) ==
    /\ edition = "mongodb"
    /\ Began(p)
    /\ UNCHANGED <<edition, users, products, cart, orders, userOrders, ledger>>
    /\ IF email = "absent" \/ EmailTaken(email)
       THEN Answer(p, Response("register", "none", 400, 0, 0, 0))
       ELSE Goto(p, "reg_name",
                 [op |-> "register", user |-> "none", email |-> email, username |-> name, currency |-> c],
                 NoLoc)

\* mongodb lines 251-252: find_one by username
MRegisterName(p) ==
    /\ edition = "mongodb"
    /\ pc[p] = "reg_name"
    /\ IF NameTaken(req[p].username)
       THEN Answer(p, Response("register", "none", 400, 0, 0, 0))
       ELSE Goto(p, "reg_insert", req[p], loc[p])
    /\ Stepped(p)
    /\ UNCHANGED <<edition, users, products, cart, orders, userOrders, ledger>>

\* mongodb lines 254-294: insert_one, answer 201 with the token
MRegisterInsert(p) ==
    /\ edition = "mongodb"
    /\ pc[p] = "reg_insert"
    /\ users' = Append(users, Customer(NewUserId, req[p].email, req[p].username,
                                       StoredCurrency(req[p].currency)))
    /\ cart' = (NewUserId :> <<>>) @@ cart
    /\ userOrders' = (NewUserId :> <<>>) @@ userOrders
    /\ Answer(p, Response("register", NewUserId, 201, 0, 0, 0))
    /\ Stepped(p)
    /\ UNCHANGED <<edition, products, orders, ledger>>

\* postgresql lines 284-290: required fields, then the query by email
PSignupBegin(p, email) ==
    /\ edition = "postgresql"
    /\ Began(p)
    /\ UNCHANGED <<edition, users, products, cart, orders, userOrders, ledger>>
    /\ IF email = "absent" \/ EmailTaken(email)
       THEN Answer(p, Response("register", "none", 400, 0, 0, 0))
       ELSE Goto(p, "psu_commit",
                 [op |-> "register", user |-> "none", email |-> email, username |-> "", currency |-> "absent"],
                 NoLoc)

\* postgresql lines 292-313: INSERT and commit; users.email is unique, a
\* second row with the address fails the commit and the request answers 500
PSignupCommit(p) ==
    /\ edition = "postgresql"
    /\ pc[p] = "psu_commit"
    /\ IF EmailTaken(req[p].email)
       THEN /\ UNCHANGED <<users, cart, userOrders>>
            /\ Answer(p, Response("register", "none", 500, 0, 0, 0))
       ELSE /\ users' = Append(users, Customer(NewUserId, req[p].email, "", "KES"))
            /\ cart' = (NewUserId :> <<>>) @@ cart
            /\ userOrders' = (NewUserId :> <<>>) @@ userOrders
            /\ Answer(p, Response("register", NewUserId, 201, 0, 0, 0))
    /\ Stepped(p)
    /\ UNCHANGED <<edition, products, orders, ledger>>

\* the server is started again: the seed looks for an account with the
\* address admin@queenkoba.com and, finding none, inserts its admin account
\* (mongodb lines 137-152, postgresql lines 207-217)
SeedAdmins ==
    /\ Quiet
    /\ served < MaxRequests
    /\ served' = served + 1
    /\ IF EmailTaken("admin@queenkoba.com")
       THEN UNCHANGED <<users, cart, userOrders>>
       ELSE /\ users' = Append(users, SeedAdmin(edition, NewUserId))
            /\ cart' = (NewUserId :> <<>>) @@ cart
            /\ userOrders' = (NewUserId :> <<>>) @@ userOrders
    /\ pc' = [p \in Procs |-> "idle"]
    /\ resp' = [p \in Procs |-> NoResp]
    /\ solo' = 0
    /\ prev' = NoResp
    /\ UNCHANGED <<edition, products, orders, req, loc, ledger>>

\* after the first startup: the seeded products and the seeded admin account
InitAccounts ==
    /\ edition \in Editions
    /\ users = <<SeedAdmin(edition, "admin")>>
    /\ products = SeedProducts
    /\ cart = [u \in {"admin"} |-> <<>>]
    /\ orders = <<>>
    /\ userOrders = [u \in {"admin"} |-> <<>>]
    /\ pc = [p \in Procs |-> "idle"]
    /\ req = [p \in Procs |-> NoReq]
    /\ loc = [p \in Procs |-> NoLoc]
    /\ resp = [p \in Procs |-> NoResp]
    /\ served = 0
    /\ solo = 0
    /\ prev = NoResp
    /\ ledger = NoLedger

NextAccounts ==
    \/ \E p \in Procs, email \in RegEmails, name \in RegNames, c \in RegCurrencies :
          MRegisterBegin(p, email, name, c)
    \/ \E p \in Procs : MRegisterName(p)
    \/ \E p \in Procs : MRegisterInsert(p)
    \/ \E p \in Procs, email \in RegEmails : PSignupBegin(p, email)
    \/ \E p \in Procs : PSignupCommit(p)
    \/ SeedAdmins

SpecAccounts == InitAccounts /\ [][NextAccounts]_vars

\* ------------------------------------------------ orders: GET /orders, GET /orders/<id>
\* the order identifiers a request path may carry (0: not an ObjectId)
OrderPaths == {0, 1, 2, 3}

RECURSIVE Reverse(_)
Reverse(f) == IF f = <<>> THEN <<>> ELSE Append(Reverse(Tail(f)), Head(f))

\* orders.find({'user_id': user_id}).sort('created_at', -1) /
\* Order.query.filter_by(user_id=user_id).order_by(created_at.desc())
FindOrders(u) == Reverse(OrdersOf(u, Len(orders)))

\* the answer of GET /orders: list holds the orders returned
OrderList(u, status, list) ==
    [op |-> "orders", user |-> u, status |-> status, order |-> 0, total |-> 0,
     count |-> Len(list), list |-> list]

\* the answer of GET /orders/<id>: asked is the identifier of the path, the
\* other fields what the body shows of the order (local in ten-thousandths)
OrderView(u, status, asked, order, total, count, local, currency, symbol) ==
    [op |-> "order", user |-> u, status |-> status, asked |-> asked, order |-> order,
     total |-> total, count |-> count, local |-> local, currency |-> currency, symbol |-> symbol]

NoView(u, status, asked) == OrderView(u, status, asked, 0, 0, 0, 0, "", "")

\* a slip: the rate of the default currency, whatever the user prefers
OrderRateDefault(c) == exchange_rates["KES"]

\* mongodb line 620: exchange_rates.get(preferred_currency, 1), in hundredths
OrderRate(c) == IF c \in Currencies THEN exchange_rates[c] ELSE 100

\* mongodb lines 624-629: the symbol, '$' for a currency without one
OrderSymbol(c) == IF c \in Currencies THEN currency_symbols[c] ELSE "$"

\* mongodb line 622: total_usd * rate, not rounded
OrderLocal(total_usd, rate) == total_usd * rate

\* mongodb lines 573-597
MGetOrders(p, u) ==
    /\ edition = "mongodb"
    /\ Began(p)
    /\ Answer(p, OrderList(u, 200, FindOrders(u)))
    /\ UNCHANGED <<edition, users, products, cart, orders, userOrders, ledger>>

\* postgresql lines 426-442
PGetOrders(p, u) ==
    /\ edition = "postgresql"
    /\ Began(p)
    /\ Answer(p, OrderList(u, 200, FindOrders(u)))
    /\ UNCHANGED <<edition, users, products, cart, orders, userOrders, ledger>>

\* a slip: the order is looked up by its identifier alone
FindOrderOfAnyone(n, u) == IF n \in 1..Len(orders) THEN n ELSE 0

\* the order orders.find_one({'_id': n, 'user_id': u}) returns, 0 for none
FindOrder(n, u) == IF n \in 1..Len(orders) /\ orders[n].user = u THEN n ELSE 0

\* mongodb lines 601-614: ObjectId(order_id) raises for a malformed
\* identifier (500); no order of the caller with the identifier answers 404
MGetOrderBegin(p, u, n) ==
    /\ edition = "mongodb"
    /\ Began(p)
    /\ UNCHANGED <<edition, users, products, cart, orders, userOrders, ledger>>
    /\ IF n = 0
       THEN Answer(p, NoView(u, 500, n))
       ELSE IF FindOrder(n, u) = 0
       THEN Answer(p, NoView(u, 404, n))
       ELSE Goto(p, "ord_user", [op |-> "order", user |-> u, id |-> NoId, qty |-> 0],
                 [NoLoc EXCEPT !.oid = n, !.items = orders[n].items, !.total = orders[n].total_usd])

\* mongodb lines 616-634: read the user document, convert, answer
MGetOrderUser(p) ==
    /\ edition = "mongodb"
    /\ pc[p] = "ord_user"
    /\ LET preferred_currency == users[FindUser(req[p].user)].preferred_currency
       IN Answer(p, OrderView(req[p].user, 200, loc[p].oid, loc[p].oid, loc[p].total, Len(loc[p].items),
                              OrderLocal(loc[p].total, OrderRate(preferred_currency)),
                              preferred_currency, OrderSymbol(preferred_currency)))
    /\ Stepped(p)
    /\ UNCHANGED <<edition, users, products, cart, orders, userOrders, ledger>>

\* the preferred currency the second customer registered with (postgresql
\* gives every account the column default)
SecondCurrencies == IF edition = "mongodb" THEN {"UGX", "USD"} ELSE {"KES"}

\* two customers; the first has ordered one of product 1 and both have a
\* filled cart
InitOrders ==
    /\ edition \in Editions
    /\ \E c \in SecondCurrencies :
          users = [StartUsers(edition, TwoUsers) EXCEPT ![3].preferred_currency = c]
    /\ products = SeedProducts
    /\ cart = [u \in TwoUsers |-> IF u = "u1" THEN <<StartLine(1, 1)>> ELSE <<StartLine(2, 1)>>]
    /\ orders = <<[order_id |-> 1, user |-> "u1",
                   items |-> <<OrderItem(StartLine(1, 1), SeedProducts[1])>>,
                   total_usd |-> SeedPrice(1), seen |-> 0]>>
    /\ userOrders = [u \in TwoUsers |-> IF u = "u1" THEN <<1>> ELSE <<>>]
    /\ pc = [p \in Procs |-> "idle"]
    /\ req = [p \in Procs |-> NoReq]
    /\ loc = [p \in Procs |-> NoLoc]
    /\ resp = [p \in Procs |-> NoResp]
    /\ served = 0
    /\ solo = 0
    /\ prev = NoResp
    /\ ledger = NoLedger

NextOrders ==
    \/ \E p \in Procs, u \in TwoUsers : MGetOrders(p, u)
    \/ \E p \in Procs, u \in TwoUsers : PGetOrders(p, u)
    \/ \E p \in Procs, u \in TwoUsers, n \in OrderPaths : MGetOrderBegin(p, u, n)
    \/ \E p \in Procs : MGetOrderUser(p)
    \/ \E p \in Procs, u \in TwoUsers : MCheckoutBegin(p, u)
    \/ \E p \in Procs : MCheckoutPrice(p)
    \/ \E p \in Procs : MCheckoutInsert(p)
    \/ \E p \in Procs : MCheckoutClear(p)
    \/ \E p \in Procs : MCheckoutLink(p)
    \/ \E p \in Procs, u \in TwoUsers : PCheckoutBegin(p, u)
    \/ \E p \in Procs : PCheckoutPrice(p)
    \/ \E p \in Procs : PCheckoutCommit(p)

SpecOrders == InitOrders /\ [][NextOrders]_vars

\* ------------------------------------------------ roles: the admin routes
\* the identity of the token a request carries ("none": no valid token)
Tokens == {"none", "admin", "u1"}

\* the addresses an admin login may carry
LoginEmails == {"info@queenkoba.com", "admin@queenkoba.com", "u1", "nobody@example.com"}

\* the role of the account a token was issued to
TokenRole(token) == IF token = "none" THEN "none" ELSE users[FindUser(token)].role

\* the roles admin_login issues a token to: postgresql line 449, mongodb line 650
AdminRoles == IF edition = "postgresql" THEN {"admin", "super_admin"} ELSE {"admin"}

\* POST /admin/auth/login (postgresql lines 444-466, mongodb lines 640-670):
\* the account with the address, its role, then the password
admin_login(p, email, password_ok) ==
    /\ Began(p)
    /\ UNCHANGED <<edition, users, products, cart, orders, userOrders, ledger>>
    /\ IF ~EmailTaken(email)
       THEN Answer(p, Response("admin_login", "none", 401, 0, 0, 0))
       ELSE LET user == users[CHOOSE i \in 1..Len(users) :
                                 users[i].email = email /\ \A j \in 1..(i - 1) : users[j].email # email]
            IN IF user.role \notin AdminRoles \/ ~password_ok
               THEN Answer(p, Response("admin_login", "none", 401, 0, 0, 0))
               ELSE Answer(p, Response("admin_login", user.id, 200, 0, 0, 0))

\* @jwt_required() turns a request without a valid token away
Unauthorized(p, op) ==
    /\ edition = "postgresql"
    /\ Began(p)
    /\ Answer(p, Response(op, "none", 401, 0, 0, 0))
    /\ UNCHANGED <<edition, users, products, cart, orders, userOrders, ledger>>

\* postgresql lines 489-511: POST /admin/products behind @jwt_required()
admin_products(p, token, name, price) ==
    IF token = "none" THEN Unauthorized(p, "post") ELSE PAdminPost(p, name, price)

\* postgresql lines 513-528: PUT and DELETE /admin/products/<id> behind
\* @jwt_required()
admin_product(p, token, method, oid, price) ==
    IF token = "none" THEN Unauthorized(p, method)
    ELSE IF method = "delete" THEN PAdminDelete(p, oid)
    ELSE PAdminPut(p, oid, price)

NextRoles ==
    \/ \E p \in Procs, email \in LoginEmails, ok \in BOOLEAN : admin_login(p, email, ok)
    \/ \E p \in Procs, token \in Tokens, name \in CatalogNames, price \in CatalogPrices :
          admin_products(p, token, name, price)
    \/ \E p \in Procs, token \in Tokens, method \in {"put", "delete"}, oid \in Oids, price \in Prices :
          admin_product(p, token, method, oid, price)

SpecRoles == Init /\ [][NextRoles]_vars

\* ======================================================================
\* Properties
\* ======================================================================
Range(f) == {f[i] : i \in 1..Len(f)}

\* the worker p has answered a request that no other request's step cut
\* into, and nothing has happened since
Returned(p, op, status) ==
    solo = p /\ pc[p] = "done" /\ resp[p].op = op /\ resp[p].status = status

\* the worker p takes the first step of a checkout of user u
BeginsCheckout(p, u) ==
    /\ pc[p] \in Idle
    /\ served' = served + 1
    /\ solo' = p
    /\ \/ req'[p].op = "checkout" /\ req'[p].user = u
       \/ resp'[p].op = "checkout" /\ resp'[p].user = u

\* the worker p takes the step that persists the order of its checkout
PersistsOrder(p) ==
    /\ pc[p] \in {"co_insert", "pco_commit"}
    /\ pc'[p] # pc[p]
    /\ Len(orders') = Len(orders) + 1

Resolves(line) == ParseId(line.id) \in Oids /\ products[ParseId(line.id)].live

\* sum of base price times quantity over the lines whose product resolves
RECURSIVE CartValue(_)
CartValue(c) ==
    IF c = <<>> THEN 0
    ELSE (IF Resolves(Head(c)) THEN products[ParseId(Head(c).id)].price * Head(c).qty ELSE 0)
         + CartValue(Tail(c))

\* C1: the order persisted by a checkout that ran uninterrupted has, as
\* total_usd, the sum over the cart lines whose product resolves of the
\* product's current base price times the line's quantity; it has one item
\* per resolving line, in order, each with item_total = price_per_item * quantity
C1_OrderTotal ==
    [][\A p \in Procs :
          (solo = p /\ PersistsOrder(p)) =>
             LET o == orders'[Len(orders')]
                 lines == SelectSeq(cart[req[p].user], Resolves)
             IN /\ o.total_usd = CartValue(cart[req[p].user])
                /\ Len(o.items) = Len(lines)
                /\ \A k \in 1..Len(o.items) :
                      /\ o.items[k].product_id = ParseId(lines[k].id)
                      /\ o.items[k].quantity = lines[k].qty
                      /\ o.items[k].price_per_item = products[ParseId(lines[k].id)].price
                      /\ o.items[k].item_total = o.items[k].price_per_item * o.items[k].quantity]_vars

\* a checkout of a cart of two lines, one of them of quantity 2 or more, returned 200
C1_Witness ==
    \E p \in Procs :
       /\ Returned(p, "checkout", 200)
       /\ Len(orders[resp[p].order].items) >= 2
       /\ \E k \in 1..Len(orders[resp[p].order].items) : orders[resp[p].order].items[k].quantity >= 2

\* C2: a checkout that finds the user's cart without lines answers 400 in
\* that very step and writes nothing: orders, carts and order references
\* are as before
C2_EmptyCartRejected ==
    [][\A p \in Procs, u \in Users :
          (BeginsCheckout(p, u) /\ cart[u] = <<>>) =>
             /\ pc'[p] = "done"
             /\ resp'[p].status = 400
             /\ UNCHANGED <<orders, cart, userOrders, products>>]_vars

\* a checkout of a user who never added anything was answered 400
C2_Witness ==
    \E p \in Procs : Returned(p, "checkout", 400) /\ orders = <<>> /\ cart[resp[p].user] = <<>>

\* C3: when a checkout that ran uninterrupted has returned 200, the cart
\* of its user has no lines
C3_CartEmptyAfterCheckout ==
    \A p \in Procs : Returned(p, "checkout", 200) => cart[resp[p].user] = <<>>

\* a checkout returned 200 right after an add of the same user had returned 200
C3_Witness ==
    \E p \in Procs :
       /\ Returned(p, "checkout", 200)
       /\ prev.op = "add" /\ prev.status = 200 /\ prev.user = resp[p].user

\* C4: when a checkout that ran uninterrupted has returned 200, the id of
\* the order it created is among the order references of its user, and the
\* order is that user's
C4_OrderLinked ==
    \A p \in Procs :
       Returned(p, "checkout", 200) =>
          /\ resp[p].order \in 1..Len(orders)
          /\ orders[resp[p].order].user = resp[p].user
          /\ resp[p].order \in Range(OrderRefs(resp[p].user))

\* a checkout returned 200 and its order is the one reference of its user
C4_Witness ==
    \E p \in Procs :
       /\ Returned(p, "checkout", 200)
       /\ OrderRefs(resp[p].user) = <<resp[p].order>>

\* C5: a checkout of the user whose previous request, a checkout that
\* returned 200, has just returned, answers 400, and the order of the first
\* call is the only one the two calls created
C5_SecondCheckoutRejected ==
    \A p \in Procs :
       ( /\ solo = p /\ pc[p] = "done" /\ resp[p].op = "checkout"
         /\ prev.op = "checkout" /\ prev.status = 200 /\ prev.user = resp[p].user )
       => /\ resp[p].status = 400
          /\ resp[p].order = 0
          /\ Len(orders) = prev.order

\* the second of two checkouts in a row has returned
C5_Witness ==
    \E p \in Procs :
       /\ Returned(p, "checkout", 400)
       /\ prev.op = "checkout" /\ prev.status = 200 /\ prev.user = resp[p].user

\* the stored quantity of product oid in the cart of user u
RECURSIVE QtyIn(_, _)
QtyIn(c, oid) ==
    IF c = <<>> THEN 0
    ELSE (IF ParseId(Head(c).id) = oid THEN Head(c).qty ELSE 0) + QtyIn(Tail(c), oid)

\* C6: no two orders of one user come from checkouts that overlapped and
\* priced the same cart: an order inserted after another checkout of the
\* user had read the cart never has the items of that checkout's order
C6_OneOrderPerCart ==
    \A m, n \in 1..Len(orders) :
       (m < n /\ orders[m].user = orders[n].user /\ orders[n].seen < m)
       => orders[m].items # orders[n].items

\* C7: when add requests for one product of one user are all that was
\* asked, in whatever interleaving, and all are answered, the quantity of
\* the product in the cart is the sum of the quantities answered 200
C7_NoLostUpdate ==
    \A u \in Users, o \in Oids :
       ( /\ ledger.pure /\ Quiet
         /\ \A u2 \in Users, o2 \in Oids : (u2 # u \/ o2 # o) => ledger.acked[u2][o2] = 0 )
       => QtyIn(cart[u], o) = ledger.acked[u][o]

\* C8: order insert, cart clearing and order reference are one step: no
\* state has an order that its user does not reference yet while the
\* user's cart is already cleared or still holds the lines of that order
C8_CheckoutAtomic ==
    \A n \in 1..Len(orders) :
       n \notin Range(OrderRefs(orders[n].user)) =>
          /\ cart[orders[n].user] # <<>>
          /\ MPriceItems(cart[orders[n].user]) # orders[n].items

\* C9: no cart has two lines of one product
C9_OneLinePerProduct ==
    \A u \in Users : \A i, j \in 1..Len(cart[u]) :
       i # j => ParseId(cart[u][i].id) # ParseId(cart[u][j].id)

\* the carts a request add(id, q) of user u, run alone, may leave from cart c:
\* lines 432-453 / 369-377 end to end
AddAlone(c, id, q) ==
    IF edition = "mongodb"
    THEN {MAddLine(c, id, q)}
    ELSE { IF i = 0
           THEN PInsertRow(c, id, PPending(c, i, q).qty, 0)
           ELSE PUpdateRow(c, i, PPending(c, i, q).qty) : i \in PFirst(c, id) }

\* the lines of a cart: product reference and quantity
Lines(c) == [i \in 1..Len(c) |-> [id |-> c[i].id, qty |-> c[i].qty]]

\* C10: from every cart the store may hold, add(id, q1) followed by
\* add(id, q2) leaves the lines a single add(id, q1 + q2) leaves
C10_AddMerges ==
    \A u \in Users, id \in Ids, q1 \in Quantities, q2 \in Quantities :
       FindProduct(ParseId(id)).live =>
          {Lines(c2) : c2 \in UNION {AddAlone(c1, id, q2) : c1 \in AddAlone(cart[u], id, q1)}}
             = {Lines(c) : c \in AddAlone(cart[u], id, q1 + q2)}

\* C11: an add request whose quantity is zero or negative, for a product
\* that exists, is answered 400 in its first step, and no step of such a
\* request changes a cart
C11_InvalidQuantityRejected ==
    [][\A p \in Procs :
          /\ \A u \in Users, id \in QtyIds, q \in AnyQuantities :
                ( /\ q <= 0
                  /\ FindProduct(ParseId(id)).live
                  /\ (MAddBegin(p, u, id, q) \/ PAddBegin(p, u, id, q)) )
                => (pc'[p] = "done" /\ resp'[p].status = 400)
          /\ (req[p].op = "add" /\ req[p].qty <= 0 /\ pc'[p] # pc[p]) => cart' = cart]_vars

\* C12: every line of every cart has a quantity of 1 or more
C12_QuantityPositive ==
    \A u \in Users : \A i \in 1..Len(cart[u]) : cart[u][i].qty >= 1

\* C13: an add request that names a product which does not exist is
\* answered 404 in its first step, the cart as it was
C13_UnknownProductRejected ==
    [][\A p \in Procs, u \in Users, id \in Ids, q \in Quantities :
          ( /\ ~FindProduct(ParseId(id)).live
            /\ (MAddBegin(p, u, id, q) \/ PAddBegin(p, u, id, q)) )
          => /\ pc'[p] = "done"
             /\ resp'[p].op = "add"
             /\ resp'[p].status = 404
             /\ cart' = cart]_vars

\* an add was answered 404 while the cart of its user holds a line
C13_Witness ==
    \E p \in Procs : Returned(p, "add", 404) /\ cart[resp[p].user] # <<>>

\* C14: a remove request is not refused at its first step, whatever the
\* cart holds; one that ran uninterrupted and was not cut short by the
\* storage answers 200, leaves no line of the identifier, and leaves the
\* cart as it was when it held no such line; so a second remove of the same
\* identifier finds nothing to change
C14_RemoveIdempotent ==
    [][\A p \in Procs :
          /\ \A u \in Users, id \in Ids : MRemoveBegin(p, u, id) => pc'[p] = "rm_write"
          /\ (solo = p /\ pc[p] = "rm_write" /\ pc'[p] = "done" /\ resp'[p].status # 500)
             => LET u == req[p].user
                    id == req[p].id
                IN /\ resp'[p].op = "remove"
                   /\ resp'[p].status = 200
                   /\ (\A i \in 1..Len(cart[u]) : cart[u][i].id # id) => cart'[u] = cart[u]
                   /\ \A i \in 1..Len(cart'[u]) : cart'[u][i].id # id]_vars

\* two removes in a row were answered 200 and the cart still holds a line:
\* neither removed anything
C14_Witness ==
    \E p \in Procs :
       /\ Returned(p, "remove", 200)
       /\ prev.op = "remove" /\ prev.status = 200 /\ prev.user = resp[p].user
       /\ cart[resp[p].user] # <<>>

\* C15: a step that edits or deletes a product leaves every persisted
\* order, its line items and its total, as it was
C15_SnapshotsKept ==
    [][products' # products => orders' = orders]_vars

\* an order of two items: the product of one has been deleted since, the
\* product of the other is sold at another price than the item shows
C15_Witness ==
    \E n \in 1..Len(orders) : \E j, k \in 1..Len(orders[n].items) :
       /\ ~products[orders[n].items[j].product_id].live
       /\ products[orders[n].items[k].product_id].live
       /\ products[orders[n].items[k].product_id].price # orders[n].items[k].price_per_item

\* C16: the price map of every product of the catalogue is calculate_prices
\* of the base price the product has now
C16_PriceMapDerived ==
    \A o \in Oids : products[o].live => products[o].prices = calculate_prices(products[o].price)

\* C17: the price map of a product whose map calculate_prices made has an
\* entry for exactly KES, UGX, BIF and CDF; each amount is within half a
\* hundredth of base price times the currency's rate, and symbol and country
\* of a currency are those every other product has for it
C17_PriceMap ==
    \A o \in Oids :
       products[o].live =>
          LET m == products[o].prices
              base == products[o].price
          IN /\ DOMAIN m = {"KES", "UGX", "BIF", "CDF"}
             /\ \A c \in DOMAIN m :
                   /\ 100 * m[c].amount - base * exchange_rates[c] \in -50..50
                   /\ \A o2 \in Oids :
                         products[o2].live =>
                            /\ products[o2].prices[c].symbol = m[c].symbol
                            /\ products[o2].prices[c].country = m[c].country

\* a product was created at a base price whose UGX amount had to be rounded
C17_Witness ==
    /\ products[3].live
    /\ products[3].price > 0
    /\ (products[3].price * exchange_rates["UGX"]) % 100 > 50

\* C18: the step of a checkout that resolves the products of the cart
\* lines it read does not end the request, whatever products are gone, and
\* yields one item for every line whose product resolves, in order, and
\* none for the others
C18_UnresolvedLinesSkipped ==
    [][\A p \in Procs :
          (pc[p] \in {"co_price", "pco_price"} /\ pc'[p] # pc[p])
          => LET lines == SelectSeq(loc[p].cart, Resolves)
             IN /\ pc'[p] \in {"co_insert", "pco_commit"}
                /\ Len(loc'[p].items) = Len(lines)
                /\ \A k \in 1..Len(lines) :
                      /\ loc'[p].items[k].product_id = ParseId(lines[k].id)
                      /\ loc'[p].items[k].quantity = lines[k].qty]_vars

\* C19: a view of the cart answers 200 with, as total, the sum over the
\* lines it read whose product resolves of the product's base price now
\* times the line's quantity; a line whose product is gone adds nothing and
\* does not fail the request
C19_CartTotalLive ==
    [][\A p \in Procs :
          (pc[p] \in {"gc_price", "pgc_price"} /\ pc'[p] = "done")
          => /\ resp'[p].op = "cart"
             /\ resp'[p].status = 200
             /\ resp'[p].total = CartValue(loc[p].cart)]_vars

\* C20: no step removes an order or changes the line items, the total,
\* the order code or the owner of an order there is; a step that changes
\* the orders is the persisting step of a checkout and adds one order, of
\* the user of that checkout
C20_OrdersImmutable ==
    [][/\ Len(orders') >= Len(orders)
       /\ \A n \in 1..Len(orders) :
             /\ orders'[n].items = orders[n].items
             /\ orders'[n].total_usd = orders[n].total_usd
             /\ orders'[n].order_id = orders[n].order_id
             /\ orders'[n].user = orders[n].user
       /\ orders' # orders =>
             \E p \in Procs :
                /\ req[p].op = "checkout"
                /\ pc[p] \in {"co_insert", "pco_commit"}
                /\ pc'[p] # pc[p]
                /\ Len(orders') = Len(orders) + 1
                /\ orders'[Len(orders')].user = req[p].user]_vars

\* an add of the user was answered 200 right after a checkout had persisted an order
C20_Witness ==
    \E p \in Procs :
       /\ Returned(p, "add", 200)
       /\ prev.op = "checkout" /\ prev.status = 200
       /\ orders # <<>>

\* C21: an order id that is among the order references of a user is among
\* them after every step
C21_OrderRefsAppendOnly ==
    [][\A u \in Users : \A n \in Range(OrderRefs(u)) : n \in Range(OrderRefs(u)')]_vars

\* C28: the step of a checkout that clears the cart removes, of every
\* product, no more than the checkout read and ordered: what an add that
\* was answered 200 meanwhile put into the cart is not cleared away
C28_AddNotLost ==
    [][\A p \in Procs :
          (pc[p] \in {"co_clear", "pco_commit"} /\ pc'[p] # pc[p] /\ cart'[req[p].user] = <<>>)
          => \A o \in Oids : QtyIn(cart[req[p].user], o) <= QtyIn(loc[p].cart, o)]_vars

\* C29: every order there is after a step has at least one line item, and
\* the step of a checkout that clears the cart comes after an order of at
\* least one item, each of a line the checkout read
C29_OrdersNotEmpty ==
    [][/\ \A n \in 1..Len(orders') : Len(orders'[n].items) >= 1
       /\ \A p \in Procs :
             (pc[p] \in {"co_clear", "pco_commit"} /\ pc'[p] # pc[p] /\ cart'[req[p].user] = <<>>)
             => /\ Len(loc[p].items) >= 1
                /\ \A k \in 1..Len(loc[p].items) :
                      \E i \in 1..Len(loc[p].cart) :
                         /\ ParseId(loc[p].cart[i].id) = loc[p].items[k].product_id
                         /\ loc[p].cart[i].qty = loc[p].items[k].quantity]_vars

\* a checkout of a cart of one line returned 200: its order has that one
\* item and a total above 0
C29_Witness ==
    \E p \in Procs :
       /\ Returned(p, "checkout", 200)
       /\ Len(orders[resp[p].order].items) = 1
       /\ orders[resp[p].order].total_usd > 0
       /\ cart[resp[p].user] = <<>>

\* C27: from every cart a series of add and checkout requests of one
\* user, served one after the other, has led to, the same next request has
\* the same outcome in the two editions: the same status, the same cart
\* lines afterwards and, for a checkout, the same items and total
C27_EditionsAgree ==
    \A u \in Users :
       Quiet =>
          /\ \A id \in SerialIds, q \in SerialQuantities :
                {[status |-> r.status, lines |-> Lines(r.cart)] : r \in SerialAdd("mongodb", cart[u], id, q)}
                   = {[status |-> r.status, lines |-> Lines(r.cart)] : r \in SerialAdd("postgresql", cart[u], id, q)}
          /\ LET m == SerialCheckout("mongodb", cart[u])
                 r == SerialCheckout("postgresql", cart[u])
             IN /\ m.status = r.status
                /\ Lines(m.cart) = Lines(r.cart)
                /\ m.items = r.items
                /\ m.total = r.total

\* the worker p takes a step of a request, and the user it is a request of
Acts(p) ==
    \/ pc[p] \in Idle /\ served' = served + 1 /\ solo' = p
    \/ pc[p] \notin Idle /\ pc'[p] # pc[p]

ActingUser(p) ==
    IF pc[p] \notin Idle THEN req[p].user
    ELSE IF pc'[p] \notin Idle THEN req'[p].user
    ELSE resp'[p].user

\* C22: a step of a request of one user leaves the cart, the order
\* references and the orders of every other user as they were, and adds no
\* order of another user
C22_UsersIndependent ==
    [][\A p \in Procs, b \in TwoUsers :
          (Acts(p) /\ ActingUser(p) # b)
          => /\ cart'[b] = cart[b]
             /\ OrderRefs(b)' = OrderRefs(b)
             /\ \A n \in 1..Len(orders) : n <= Len(orders') /\ orders'[n] = orders[n]
             /\ \A n \in (Len(orders) + 1)..Len(orders') : orders'[n].user # b]_vars

\* a checkout of u1 returned 200 and emptied the cart of u1, while u2 has
\* a line in the cart and no order
C22_Witness ==
    \E p \in Procs :
       /\ Returned(p, "checkout", 200)
       /\ resp[p].user = "u1"
       /\ "u2" \in DOMAIN cart
       /\ cart["u1"] = <<>>
       /\ cart["u2"] # <<>>
       /\ OrderRefs("u2") = <<>>

\* C24: in every reachable state the preferred currency of every account is
\* one of the currencies of the rate table (KES, UGX, BIF, CDF).
C24_CurrencySupported ==
    \A i \in 1..Len(users) : users[i].preferred_currency \in Currencies

\* C26: in every reachable state no two accounts have the same email
\* address, whatever the order and the interleaving of the registrations.
C26_EmailUnique ==
    \A i, j \in 1..Len(users) : users[i].email = users[j].email => i = j

\* the worker p answers a request of kind op in this step
AnswersNow(p, op) == resp'[p] # resp[p] /\ pc'[p] = "done" /\ resp'[p].op = op

\* C23: an order-detail view shows, as local total, the stored total_usd of
\* the order times the rate of the preferred currency the user has when the
\* view reads it (the amount itself for a currency without a rate), names
\* that currency, and leaves the orders as they are; at the KES rate 25.00
\* USD is 3212.50 and the order of 29.99 USD shows 3853.715, and any other
\* currency of the table would give another local total.
C23_LocalTotalAtRead ==
    [][\A p \in Procs :
          (AnswersNow(p, "order") /\ resp'[p].status = 200)
          => LET r == resp'[p]
                 c == users[FindUser(r.user)].preferred_currency
             IN /\ r.currency = c
                /\ r.total = orders[r.order].total_usd
                /\ r.local = orders[r.order].total_usd * (IF c \in Currencies THEN exchange_rates[c] ELSE 100)
                /\ orders' = orders
                /\ 2500 * exchange_rates["KES"] = 32125000
                /\ (c = "KES" /\ r.total = SeedPrice(1)) => r.local = 38537150
                /\ \A d \in Currencies \ {c} : orders[r.order].total_usd * exchange_rates[d] # r.local]_vars

C23_Witness ==
    \E p \in Procs :
        /\ pc[p] = "done" /\ resp[p].op = "order" /\ resp[p].status = 200
        /\ resp[p].user = "u2" /\ resp[p].currency = "UGX"
        /\ resp[p].total = SeedPrice(2)
        /\ resp[p].local = SeedPrice(2) * exchange_rates["UGX"]

C25_OnlyAdminsWriteProducts ==
    [][\A p \in Procs, token \in Tokens :
          (/\ TokenRole(token) # "admin"
           /\ \/ \E name \in CatalogNames, price \in CatalogPrices : admin_products(p, token, name, price)
              \/ \E method \in {"put", "delete"}, oid \in Oids, price \in Prices :
                    admin_product(p, token, method, oid, price))
          => products' = products]_vars

====
